---- MODULE Spec2Model ----
(***************************************************************************)
(* The did:plc operation-log validator: assureValidNextOp folded over a    *)
(* log by validateOperationLog, with the signature, normalisation and      *)
(* genesis checks of plc_validate/operations.ts.                           *)
(*                                                                         *)
(* Strings that the code takes apart are given by their parts: a CID       *)
(* string is its multibase prefix and its text, a URL is <<scheme, rest>>, *)
(* a DID is <<"did:plc:", 24 characters>>.  JavaScript null is Null; the   *)
(* value of a variable not yet assigned is Undefined.  Sequences are       *)
(* 1-based: the source's index i is i + 1 here, and -1 (not found) is 0.   *)
(***************************************************************************)
EXTENDS Integers, Sequences, FiniteSets, TLC

\* ---------------------------------------------------------------- bounds

\* The longest confirmed history the log driver is run to.
MaxOps == 3

\* ------------------------------------------------------------- constants

SECOND == 1000
MINUTE == 60 * SECOND
HOUR == 60 * MINUTE
RECOVERY_WINDOW == 72 * HOUR

Null == [null |-> TRUE]
Undefined == [undefined |-> TRUE]

\* ------------------------------------------------------------ input sets

K1 == "did:key:zK1"
K2 == "did:key:zK2"
Keys == {K1, K2}

\* rotationKeys values: ordered, most powerful first.
RotationKeyLists == {<<K1, K2>>, <<K2>>}

\* CID strings: the multibase prefix and the base32 text that follows it.
CidA == [multibase |-> "b", text |-> "afyrei-a"]
CidB == [multibase |-> "b", text |-> "afyrei-b"]
CidStrs == {CidA, CidB}

\* createdAt strings, as <<days, milliseconds of the day>>: 72 hours apart,
\* and one millisecond more.
CreatedAts == {[day |-> 1, ms |-> 0], [day |-> 4, ms |-> 0], [day |-> 4, ms |-> 1]}

\* ------------------------------------------------------ strings and URLs

startsWith(str, part) == Len(str) > 0 /\ str[1] = part

\* String.prototype.replace(part, ""): the first occurrence only.
RemoveFirst(str, part) ==
  LET at == {i \in 1..Len(str) : str[i] = part}
  IN IF at = {} THEN str
     ELSE LET i == CHOOSE j \in at : \A k \in at : j <= k
          IN SubSeq(str, 1, i - 1) \o SubSeq(str, i + 1, Len(str))

ensureHttpPrefix(str) ==
  IF startsWith(str, "http://") \/ startsWith(str, "https://")
  THEN str
  ELSE <<"https://">> \o str

ensureAtprotoPrefix(str) ==
  IF startsWith(str, "at://")
  THEN str
  ELSE <<"at://">> \o RemoveFirst(RemoveFirst(str, "http://"), "https://")

\* ------------------------------------------------------------ operations

isTombstone(op) == op.type = "plc_tombstone"

\* const { sig, ...opData } = op
OmitSig(op) ==
  IF op.type = "plc_operation"
  THEN [type |-> op.type, verificationMethods |-> op.verificationMethods,
        rotationKeys |-> op.rotationKeys, alsoKnownAs |-> op.alsoKnownAs,
        services |-> op.services, prev |-> op.prev]
  ELSE IF op.type = "create"
  THEN [type |-> op.type, signingKey |-> op.signingKey,
        recoveryKey |-> op.recoveryKey, handle |-> op.handle,
        service |-> op.service, prev |-> op.prev]
  ELSE [type |-> op.type, prev |-> op.prev]

\* { ...object, sig }
WithSig(object, sig) ==
  IF object.type = "plc_operation"
  THEN [type |-> object.type, verificationMethods |-> object.verificationMethods,
        rotationKeys |-> object.rotationKeys, alsoKnownAs |-> object.alsoKnownAs,
        services |-> object.services, prev |-> object.prev, sig |-> sig]
  ELSE IF object.type = "create"
  THEN [type |-> object.type, signingKey |-> object.signingKey,
        recoveryKey |-> object.recoveryKey, handle |-> object.handle,
        service |-> object.service, prev |-> object.prev, sig |-> sig]
  ELSE [type |-> object.type, prev |-> object.prev, sig |-> sig]

\* cbor.encode: the map's entries in dag-cbor's canonical key order (shorter
\* keys first, then bytewise); a field that is absent is not encoded.
cborEncode(o) ==
  (IF "sig" \in DOMAIN o THEN <<<<"sig", o.sig>>>> ELSE <<>>)
  \o <<<<"prev", o.prev>>, <<"type", o.type>>>>
  \o (IF o.type = "plc_operation"
      THEN <<<<"services", o.services>>, <<"alsoKnownAs", o.alsoKnownAs>>,
             <<"rotationKeys", o.rotationKeys>>,
             <<"verificationMethods", o.verificationMethods>>>>
      ELSE IF o.type = "create"
      THEN <<<<"handle", o.handle>>, <<"service", o.service>>,
             <<"signingKey", o.signingKey>>, <<"recoveryKey", o.recoveryKey>>>>
      ELSE <<>>)

\* A signature string: the base64url text of a signature made with the
\* private key of did-key `by` over the bytes `over`; pad says whether the
\* text ends in "=".
toBase64Url(sigBytes, pad) == [by |-> sigBytes.by, over |-> sigBytes.over, pad |-> pad]
fromBase64Url(sig) == [by |-> sig.by, over |-> sig.over]
endsWithEq(sig) == sig.pad

\* key.sign(data)
sign(key, data) == [by |-> key, over |-> data]

verifySigWithDidKey(didKey, sigBytes, dataBytes) ==
  sigBytes.by = didKey /\ sigBytes.over = dataBytes

\* SHA-256 and base32: injective on the inputs of the model.
toSha256(input) == <<"sha256", input>>
toBase32(bytes) == <<"b32", bytes>>
\* hashB32.slice(0, 24): 120 bits of the digest, which tell the inputs of the
\* model apart.
slice24(hashB32) == <<"0..24", hashB32>>

didForCreateOp(op) == <<"did:plc:", slice24(toBase32(toSha256(cborEncode(op))))>>

normalizeOp(op) ==
  IF op.type = "plc_operation"
  THEN op
  ELSE [type |-> "plc_operation",
        verificationMethods |-> [atproto |-> op.signingKey],
        rotationKeys |-> <<op.recoveryKey, op.signingKey>>,
        alsoKnownAs |-> <<ensureAtprotoPrefix(op.handle)>>,
        services |-> [atproto_pds |->
                        [type |-> "AtprotoPersonalDataServer",
                         endpoint |-> ensureHttpPrefix(op.service)]],
        prev |-> op.prev,
        sig |-> op.sig]

\* ---------------------------------------------------------------- errors

MisorderedOperationError == [kind |-> "MisorderedOperationError"]
InvalidSignatureError(op) == [kind |-> "InvalidSignatureError", op |-> op]
GenesisHashError(expected) == [kind |-> "GenesisHashError", expected |-> expected]
ImproperOperationError(msg, op) ==
  [kind |-> "ImproperOperationError", message |-> msg, op |-> op]
LateRecoveryError(timeLapsed) ==
  [kind |-> "LateRecoveryError", timeLapsed |-> timeLapsed]
\* history.at(-1)!.operation on an empty history
TypeError == [kind |-> "TypeError"]
NoError == [kind |-> "none"]

Throw(e) == [ok |-> FALSE, err |-> e]

\* ------------------------------------------------------------ signatures

\* The index of the first allowed key that verifies, 0 when none does.
FirstValidKey_any(allowedDidKeys, sigBytes, dataBytes) ==
  IF Len(allowedDidKeys) > 0 THEN 1 ELSE 0
FirstValidKey(allowedDidKeys, sigBytes, dataBytes) ==
  LET valid == {i \in 1..Len(allowedDidKeys) :
                  verifySigWithDidKey(allowedDidKeys[i], sigBytes, dataBytes)}
  IN IF valid = {} THEN 0 ELSE CHOOSE i \in valid : \A j \in valid : i <= j

assureValidSig(allowedDidKeys, op) ==
  IF endsWithEq(op.sig)
  THEN Throw(InvalidSignatureError(op))
  ELSE LET sigBytes == fromBase64Url(op.sig)
           dataBytes == cborEncode(OmitSig(op))
           i == FirstValidKey(allowedDidKeys, sigBytes, dataBytes)
       IN IF i = 0
          THEN Throw(InvalidSignatureError(op))
          ELSE [ok |-> TRUE, didKey |-> allowedDidKeys[i]]

\* expectedDid !== did
didMismatch_never(expectedDid, did) == FALSE
didMismatch(expectedDid, did) == expectedDid # did

\* op.prev !== null
prevNotNull_never(op) == FALSE
prevNotNull(op) == op.prev # Null

\* The creation check with the prev test moved before the DID test.
assureValidCreationOp_prevFirst(did, op) ==
  IF isTombstone(op)
  THEN Throw(MisorderedOperationError)
  ELSE LET normalized == normalizeOp(op)
           sigCheck == assureValidSig(normalized.rotationKeys, op)
           expectedDid == didForCreateOp(op)
       IN IF ~sigCheck.ok THEN sigCheck
          ELSE IF prevNotNull(op)
          THEN Throw(ImproperOperationError("expected null prev on create", op))
          ELSE IF didMismatch(expectedDid, did) THEN Throw(GenesisHashError(expectedDid))
          ELSE [ok |-> TRUE,
                data |-> [did |-> did,
                          verificationMethods |-> normalized.verificationMethods,
                          rotationKeys |-> normalized.rotationKeys,
                          alsoKnownAs |-> normalized.alsoKnownAs,
                          services |-> normalized.services]]

assureValidCreationOp(did, op) ==
  IF isTombstone(op)
  THEN Throw(MisorderedOperationError)
  ELSE LET normalized == normalizeOp(op)
           sigCheck == assureValidSig(normalized.rotationKeys, op)
           expectedDid == didForCreateOp(op)
       IN IF ~sigCheck.ok THEN sigCheck
          ELSE IF didMismatch(expectedDid, did) THEN Throw(GenesisHashError(expectedDid))
          ELSE IF prevNotNull(op)
          THEN Throw(ImproperOperationError("expected null prev on create", op))
          ELSE [ok |-> TRUE,
                data |-> [did |-> did,
                          verificationMethods |-> normalized.verificationMethods,
                          rotationKeys |-> normalized.rotationKeys,
                          alsoKnownAs |-> normalized.alsoKnownAs,
                          services |-> normalized.services]]

\* ------------------------------------------------------------------ CIDs

\* CID.fromString and CID.toString: a CIDv1 with codec 0x71 (dag-cbor).
CidFromString(str) == [version |-> 1, codec |-> 113, digest |-> str.text]
CidToString(cid) == [multibase |-> "b", text |-> cid.digest]

\* CID.create(0x71, bytes): the CIDv1 of the bytes, its digest their sha2-256.
CidCreate(codec, bytes) ==
  [version |-> 1, codec |-> codec, digest |-> ToString(toSha256(bytes))]

\* The cid string of an operation: CID.create(0x71, cbor.encode(op)).
cidOf(op) == CidToString(CidCreate(113, cborEncode(op)))

\* NaN, the number Date.parse answers for a string that is no date: a value
\* apart from every instant and every difference of instants of the model.
NaN == -2000000000

\* Date.parse of a createdAt string: milliseconds, NaN for a string that
\* cannot be parsed.
DateParse(createdAt) ==
  IF "day" \in DOMAIN createdAt
  THEN createdAt.day * 24 * HOUR + createdAt.ms
  ELSE NaN

\* a - b on numbers: NaN when either is NaN.
Subtract(a, b) == IF a = NaN \/ b = NaN THEN NaN ELSE a - b

\* A search that falls back to the head of the history.
findIndex_orLast(ops, proposedPrev) ==
  LET found == {i \in 1..Len(ops) : CidToString(proposedPrev) = ops[i].cid}
  IN IF found = {} THEN Len(ops) ELSE CHOOSE i \in found : \A j \in found : i <= j

\* ops.findIndex((op) => CID.toString(proposedPrev) === op.cid)
findIndex(ops, proposedPrev) ==
  LET found == {i \in 1..Len(ops) : CidToString(proposedPrev) = ops[i].cid}
  IN IF found = {} THEN 0 ELSE CHOOSE i \in found : \A j \in found : i <= j

\* Array.prototype.indexOf: the first index holding the key, 0 when none.
indexOf(list, item) ==
  LET found == {i \in 1..Len(list) : list[i] = item}
  IN IF found = {} THEN 0 ELSE CHOOSE i \in found : \A j \in found : i <= j

\* nullified.map((op) => op.cid)
CidsOf_prev(ops) == [i \in 1..Len(ops) |-> ops[i].operation.prev]
CidsOf(ops) == [i \in 1..Len(ops) |-> ops[i].cid]

\* -------------------------------------------------------- step validator

\* ops.slice(0, indexOfPrev + 1): the operations kept.
sliceHistory(ops, indexOfPrev) == SubSeq(ops, 1, indexOfPrev)

\* ops.slice(indexOfPrev + 1): the operations a fork displaces.
sliceNullified_none(ops, indexOfPrev) == <<>>
sliceNullified(ops, indexOfPrev) == SubSeq(ops, indexOfPrev + 1, Len(ops))

\* opsInHistory.at(-1)
lastOf_first(opsInHistory) == opsInHistory[1]
lastOf(opsInHistory) == opsInHistory[Len(opsInHistory)]

\* lastOp.operation.type === "plc_tombstone"
lastOpIsTombstone(lastOp) == isTombstone(lastOp.operation)

\* rotationKeys.slice(0, indexOfSigner): the keys of the ancestor that are
\* more powerful than the one that signed the displaced operation.
morePowerfulKeys_all(rotationKeys, disputedSigner) == rotationKeys
morePowerfulKeys_inclusive(rotationKeys, disputedSigner) ==
  SubSeq(rotationKeys, 1, indexOf(rotationKeys, disputedSigner))
morePowerfulKeys(rotationKeys, disputedSigner) ==
  SubSeq(rotationKeys, 1, indexOf(rotationKeys, disputedSigner) - 1)

\* timeLapsed > RECOVERY_WINDOW
exceedsWindow_atLeast(timeLapsed) == timeLapsed >= RECOVERY_WINDOW
exceedsWindow_twoSided(timeLapsed) ==
  timeLapsed > RECOVERY_WINDOW \/ timeLapsed < 0
\* The test written as !(timeLapsed <= RECOVERY_WINDOW).
exceedsWindow_notWithin(timeLapsed) ==
  ~(timeLapsed # NaN /\ timeLapsed <= RECOVERY_WINDOW)
\* A comparison with NaN is false.
exceedsWindow(timeLapsed) ==
  timeLapsed # NaN /\ timeLapsed > RECOVERY_WINDOW

\* The nullifying branch with the recovery window tested before the
\* proposed operation's signature.
forkHistory_windowFirst(opsInHistory, nullified, lastOpNormalized, proposed, proposedPrev) ==
  LET firstNullified == nullified[1]
      disputedSigner == assureValidSig(lastOpNormalized.rotationKeys,
                                       firstNullified.operation)
  IN IF ~disputedSigner.ok THEN disputedSigner
     ELSE LET stronger == assureValidSig(
                 morePowerfulKeys(lastOpNormalized.rotationKeys,
                                  disputedSigner.didKey),
                 proposed.operation)
              timeLapsed == Subtract(DateParse(proposed.createdAt),
                                     DateParse(firstNullified.createdAt))
          IN IF Len(nullified) > 0 /\ exceedsWindow(timeLapsed)
             THEN Throw(LateRecoveryError(timeLapsed))
             ELSE IF ~stronger.ok THEN stronger
             ELSE [ok |-> TRUE,
                   nullified |-> CidsOf(nullified),
                   prev |-> proposedPrev,
                   ops |-> Append(opsInHistory, proposed)]

\* The nullifying branch with the recovery window measured from the last
\* nullified operation.
forkHistory_fromLast(opsInHistory, nullified, lastOpNormalized, proposed, proposedPrev) ==
  LET firstNullified == nullified[1]
      disputedSigner == assureValidSig(lastOpNormalized.rotationKeys,
                                       firstNullified.operation)
  IN IF ~disputedSigner.ok THEN disputedSigner
     ELSE LET stronger == assureValidSig(
                 morePowerfulKeys(lastOpNormalized.rotationKeys,
                                  disputedSigner.didKey),
                 proposed.operation)
              timeLapsed ==
                Subtract(DateParse(proposed.createdAt),
                         DateParse(nullified[Len(nullified)].createdAt))
          IN IF ~stronger.ok THEN stronger
             ELSE IF Len(nullified) > 0 /\ exceedsWindow(timeLapsed)
             THEN Throw(LateRecoveryError(timeLapsed))
             ELSE [ok |-> TRUE,
                   nullified |-> CidsOf(nullified),
                   prev |-> proposedPrev,
                   ops |-> Append(opsInHistory, proposed)]

\* The nullifying branch of assureValidNextOp.
forkHistory(opsInHistory, nullified, lastOpNormalized, proposed, proposedPrev) ==
  LET firstNullified == nullified[1]
      disputedSigner == assureValidSig(lastOpNormalized.rotationKeys,
                                       firstNullified.operation)
  IN IF ~disputedSigner.ok THEN disputedSigner
     ELSE LET stronger == assureValidSig(
                 morePowerfulKeys(lastOpNormalized.rotationKeys,
                                  disputedSigner.didKey),
                 proposed.operation)
              timeLapsed == Subtract(DateParse(proposed.createdAt),
                                     DateParse(firstNullified.createdAt))
          IN IF ~stronger.ok THEN stronger
             ELSE IF Len(nullified) > 0 /\ exceedsWindow(timeLapsed)
             THEN Throw(LateRecoveryError(timeLapsed))
             ELSE [ok |-> TRUE,
                   nullified |-> CidsOf(nullified),
                   prev |-> proposedPrev,
                   ops |-> Append(opsInHistory, proposed)]

\* An extension accepted without a look at its signature.
extendHistory_unchecked(ops, lastOpNormalized, proposed, proposedPrev) ==
  [ok |-> TRUE, nullified |-> <<>>, prev |-> proposedPrev,
   ops |-> Append(ops, proposed)]

\* The non-nullifying branch of assureValidNextOp.
extendHistory(ops, lastOpNormalized, proposed, proposedPrev) ==
  LET sigCheck == assureValidSig(lastOpNormalized.rotationKeys, proposed.operation)
  IN IF ~sigCheck.ok THEN sigCheck
     ELSE [ok |-> TRUE, nullified |-> <<>>, prev |-> proposedPrev,
           ops |-> Append(ops, proposed)]

\* The branch of assureValidNextOp for an empty history.
createHistory(did, proposed) ==
  LET creation == assureValidCreationOp(did, proposed.operation)
  IN IF ~creation.ok THEN creation
     ELSE [ok |-> TRUE, nullified |-> <<>>, prev |-> Null, ops |-> <<proposed>>]

\* A validator that takes a proposal with a null prev as a creation whatever
\* the history holds.
assureValidNextOp_recreate(did, ops, proposed) ==
  IF Len(ops) = 0 \/ proposed.operation.prev = Null
  THEN createHistory(did, proposed)
  ELSE
    LET proposedPrev == CidFromString(proposed.operation.prev)
        indexOfPrev == findIndex(ops, proposedPrev)
    IN IF indexOfPrev < 1 THEN Throw(MisorderedOperationError)
       ELSE
         LET opsInHistory == sliceHistory(ops, indexOfPrev)
             nullified == sliceNullified(ops, indexOfPrev)
         IN IF Len(opsInHistory) = 0 THEN Throw(MisorderedOperationError)
            ELSE
              LET lastOp == lastOf(opsInHistory)
              IN IF lastOpIsTombstone(lastOp) THEN Throw(MisorderedOperationError)
                 ELSE IF Len(nullified) = 0
                 THEN extendHistory(ops, normalizeOp(lastOp.operation),
                                    proposed, proposedPrev)
                 ELSE forkHistory(opsInHistory, nullified,
                                  normalizeOp(lastOp.operation),
                                  proposed, proposedPrev)

assureValidNextOp(did, ops, proposed) ==
  IF Len(ops) = 0 THEN createHistory(did, proposed)
  ELSE IF proposed.operation.prev = Null THEN Throw(MisorderedOperationError)
  ELSE
    LET proposedPrev == CidFromString(proposed.operation.prev)
        indexOfPrev == findIndex(ops, proposedPrev)
    IN IF indexOfPrev < 1 THEN Throw(MisorderedOperationError)
       ELSE
         LET opsInHistory == sliceHistory(ops, indexOfPrev)
             nullified == sliceNullified(ops, indexOfPrev)
         IN IF Len(opsInHistory) = 0 THEN Throw(MisorderedOperationError)
            ELSE
              LET lastOp == lastOf(opsInHistory)
              IN IF lastOpIsTombstone(lastOp) THEN Throw(MisorderedOperationError)
                 ELSE IF Len(nullified) = 0
                 THEN extendHistory(ops, normalizeOp(lastOp.operation),
                                    proposed, proposedPrev)
                 ELSE forkHistory(opsInHistory, nullified,
                                  normalizeOp(lastOp.operation),
                                  proposed, proposedPrev)

\* op.type === "plc_tombstone" in opToData
resolvesToNull_unlessV2(op) == op.type # "plc_operation"
resolvesToNull(op) == isTombstone(op)

opToData(did, op) ==
  IF resolvesToNull(op) THEN Null
  ELSE LET normalized == normalizeOp(op)
       IN [did |-> did,
           verificationMethods |-> normalized.verificationMethods,
           rotationKeys |-> normalized.rotationKeys,
           alsoKnownAs |-> normalized.alsoKnownAs,
           services |-> normalized.services]

\* ---------------------------------------------------------------- inputs

UnsignedV2(rotationKeys, prev) ==
  [type |-> "plc_operation",
   verificationMethods |-> [atproto |-> K2],
   rotationKeys |-> rotationKeys,
   alsoKnownAs |-> <<<<"at://", "alice.test">>>>,
   services |-> [atproto_pds |-> [type |-> "AtprotoPersonalDataServer",
                                  endpoint |-> <<"https://", "pds.test">>]],
   prev |-> prev]

UnsignedV1 ==
  [type |-> "create", signingKey |-> K2, recoveryKey |-> K1,
   handle |-> <<"alice.test">>, service |-> <<"pds.test">>, prev |-> Null]

UnsignedTombstone(prev) == [type |-> "plc_tombstone", prev |-> prev]

UnsignedOps ==
  {UnsignedV2(rk, prev) : rk \in RotationKeyLists, prev \in {Null} \cup CidStrs}
  \cup {UnsignedV1}
  \cup {UnsignedTombstone(prev) : prev \in CidStrs}

\* The bytes of some other operation, whose signature is copied onto this one.
ForeignBytes == cborEncode(UnsignedTombstone([multibase |-> "b", text |-> "afyrei-unrelated"]))

\* The sig strings an operation arrives with: a signature by each key over
\* its own bytes, the same with "=" padding, and a signature over other bytes.
SigStrings(object) ==
  {toBase64Url(sign(k, cborEncode(object)), FALSE) : k \in Keys}
  \cup {toBase64Url(sign(K1, cborEncode(object)), TRUE)}
  \cup {toBase64Url(sign(K1, ForeignBytes), FALSE)}

\* addSignature
addSignature(object, key) ==
  WithSig(object, toBase64Url(sign(key, cborEncode(object)), FALSE))

Operations == UNION {{WithSig(o, s) : s \in SigStrings(o)} : o \in UnsignedOps}

\* The rows of one DID as the store hands them over.
Proposals ==
  {[operation |-> o, cid |-> c, createdAt |-> t] :
     o \in Operations, c \in CidStrs, t \in CreatedAts}

\* The DIDs a log is validated under: that of a v2 genesis, of a v1 genesis,
\* and of a signed operation that names a predecessor.
DidInputs ==
  {didForCreateOp(addSignature(UnsignedV2(<<K1, K2>>, Null), K1)),
   didForCreateOp(addSignature(UnsignedV1, K2)),
   didForCreateOp(addSignature(UnsignedV2(<<K1, K2>>, CidA), K1))}

\* ------------------------------------------------------------ log driver

VARIABLES
  did,      \* validateOperationLog's did
  history,  \* validateOperationLog's history
  op,       \* the loop variable: the operation last taken from ops
  result,   \* what the awaited assureValidNextOp resolved to
  pc,       \* "loop", "resolved", "returned" or "threw"
  err,      \* the error the call rejected with
  doc,      \* the value the call returned
  logs,       \* concurrent calls: the ops argument of each call
  histories,  \* concurrent calls: the history buffer of each call
  call,       \* concurrent calls: each call's position, op, outcome
  firehose,   \* the Firehose object: its socket, timer and handlers
  verify,     \* a call of assureValidSig: its arguments, position, outcome
  importer,   \* the importer: its download, pending rows and table
  replaced    \* per position of the history, the operations that were
              \* replaced at the place right after it

vars ==
  <<did, history, op, result, pc, err, doc, logs, histories, call, firehose,
    verify, importer, replaced>>

\* The state of the concurrent calls and of the firehose, which a single
\* call leaves alone.
callVars ==
  <<logs, histories, call, firehose, verify, importer, replaced>>

Init ==
  /\ did \in DidInputs
  /\ history = <<>>
  /\ op = Undefined
  /\ result = Undefined
  /\ pc = "loop"
  /\ err = NoError
  /\ doc = Undefined
  /\ logs = <<>>
  /\ histories = <<>>
  /\ call = <<>>
  /\ firehose = Undefined
  /\ verify = Undefined
  /\ importer = Undefined
  /\ replaced = <<>>

\* Whether the proposed operation names the last operation of ops as its
\* predecessor: accepted, it makes the history one longer.
extendsPast(ops, proposed) ==
  /\ proposed.operation.prev # Null
  /\ findIndex(ops, CidFromString(proposed.operation.prev)) = Len(ops)

\* The loop with a try/catch that passes over an operation that fails.
Step_skipFailed(proposed) ==
  /\ pc = "loop"
  /\ Len(history) < MaxOps \/ ~extendsPast(history, proposed)
  /\ op' = proposed
  /\ LET r == assureValidNextOp(did, history, proposed)
     IN IF r.ok
        THEN result' = r /\ pc' = "resolved"
        ELSE result' = result /\ pc' = "loop"
  /\ UNCHANGED <<did, history, doc, err>>
  /\ UNCHANGED callVars

\* for (const op of ops): await assureValidNextOp(did, history, op)
\* A history of MaxOps operations is not extended; it can still be forked.
\* A step that cuts the caller's list in place (splice) instead of copying.
Step_splice(proposed) ==
  /\ pc = "loop"
  /\ Len(history) < MaxOps \/ ~extendsPast(history, proposed)
  /\ op' = proposed
  /\ LET r == assureValidNextOp(did, history, proposed)
     IN IF r.ok
        THEN /\ result' = r
             /\ pc' = "resolved"
             /\ err' = err
             /\ history' = SubSeq(r.ops, 1, Len(r.ops) - 1)
        ELSE /\ err' = r.err
             /\ pc' = "threw"
             /\ result' = result
             /\ history' = history
  /\ UNCHANGED <<did, doc>>
  /\ UNCHANGED callVars

Step(proposed) ==
  /\ pc = "loop"
  /\ Len(history) < MaxOps \/ ~extendsPast(history, proposed)
  /\ op' = proposed
  /\ LET r == assureValidNextOp(did, history, proposed)
     IN IF r.ok
        THEN /\ result' = r
             /\ pc' = "resolved"
             /\ err' = err
        ELSE /\ err' = r.err
             /\ pc' = "threw"
             /\ result' = result
  /\ UNCHANGED <<did, history, doc>>
  /\ UNCHANGED callVars

\* ({ ops: history } = ...)
Assign ==
  /\ pc = "resolved"
  /\ history' = result.ops
  /\ result' = Undefined
  /\ pc' = "loop"
  /\ UNCHANGED <<did, op, err, doc>>
  /\ UNCHANGED callVars

\* A driver that answers null for an empty log.
Return_nullOnEmpty ==
  /\ pc = "loop"
  /\ doc' = IF Len(history) = 0 THEN Null
            ELSE opToData(did, history[Len(history)].operation)
  /\ pc' = "returned"
  /\ UNCHANGED <<did, history, op, result, err>>
  /\ UNCHANGED callVars

\* return opToData(did, history.at(-1)!.operation)
Return ==
  /\ pc = "loop"
  /\ IF Len(history) = 0
     THEN /\ err' = TypeError
          /\ pc' = "threw"
          /\ doc' = doc
     ELSE /\ doc' = opToData(did, history[Len(history)].operation)
          /\ pc' = "returned"
          /\ err' = err
  /\ UNCHANGED <<did, history, op, result>>
  /\ UNCHANGED callVars

Next ==
  \/ \E proposed \in Proposals : Step(proposed)
  \/ Assign
  \/ Return

Spec == Init /\ [][Next]_vars

\* ------------------------------------------------------ concurrent calls

\* The longest ops list handed to the concurrent calls.
MaxLogLen == 3

\* Two calls of validateOperationLog in flight on one event loop.
Calls == {1, 2}

CidC == [multibase |-> "b", text |-> "afyrei-c"]

\* A row of the records table as the route decodes it: the indexed
\* operation and the stored nullified flag.
Row(operation, cid, createdAt, nullified) ==
  [operation |-> operation, cid |-> cid, createdAt |-> createdAt,
   nullified |-> nullified]

\* The genesis of the logs, and an update of it by K2 that names it by the
\* cid of its content.
GenesisOp == addSignature(UnsignedV2(<<K1, K2>>, Null), K1)
UpdateOfGenesisOp == addSignature(UnsignedV2(<<K1, K2>>, cidOf(GenesisOp)), K2)

\* The rows the logs are made of, before their flags are set: a genesis, an
\* update by K2, a recovery by K1 in time and one millisecond late, a
\* tombstone, an update with a padded signature, and the genesis and an
\* update of it stored under the cids of their content.
LogRows ==
  {Row(GenesisOp, cidOf(GenesisOp), [day |-> 1, ms |-> 0], FALSE),
   Row(UpdateOfGenesisOp, cidOf(UpdateOfGenesisOp), [day |-> 1, ms |-> 0], FALSE),
   Row(addSignature(UnsignedV2(<<K1, K2>>, Null), K1), CidA,
       [day |-> 1, ms |-> 0], FALSE),
   Row(addSignature(UnsignedV2(<<K1, K2>>, CidA), K2), CidB,
       [day |-> 1, ms |-> 0], FALSE),
   Row(addSignature(UnsignedV2(<<K2>>, CidA), K1), CidB,
       [day |-> 4, ms |-> 0], FALSE),
   Row(addSignature(UnsignedV2(<<K2>>, CidA), K1), CidB,
       [day |-> 4, ms |-> 1], FALSE),
   Row(addSignature(UnsignedTombstone(CidB), K1), CidC,
       [day |-> 4, ms |-> 0], FALSE),
   Row(WithSig(UnsignedV2(<<K1, K2>>, CidA),
               toBase64Url(sign(K1, cborEncode(UnsignedV2(<<K1, K2>>, CidA))), TRUE)),
       CidB, [day |-> 1, ms |-> 0], FALSE)}

Logs == UNION {[1..n -> LogRows] : n \in 0..MaxLogLen}

\* The log with its nullified flags set to `flags`.
Flagged(log, flags) ==
  [i \in 1..Len(log) |->
     Row(log[i].operation, log[i].cid, log[i].createdAt, flags[i])]

\* let history = []: the buffer a call keeps its history in, its own.
historyOf_shared(c) == 1
historyOf(c) == c

\* Both calls have been made and neither has run yet.  The first is given
\* the log with every flag false, the second the same rows with any flags.
ConcurrentInit ==
  /\ did \in DidInputs
  /\ history = <<>>
  /\ op = Undefined
  /\ result = Undefined
  /\ pc = "loop"
  /\ err = NoError
  /\ doc = Undefined
  /\ \E log \in Logs : \E flags \in [1..Len(log) -> BOOLEAN] :
       logs = [c \in Calls |-> IF c = 1 THEN log ELSE Flagged(log, flags)]
  /\ histories = [c \in Calls |-> <<>>]
  /\ call = [c \in Calls |->
               [pos |-> 1, op |-> Undefined, result |-> Undefined,
                pc |-> "loop", err |-> NoError, doc |-> Undefined]]
  /\ firehose = Undefined
  /\ verify = Undefined
  /\ importer = Undefined
  /\ replaced = <<>>

\* A loop that passes over the rows flagged as nullified.
CallStep_skipFlagged(c) ==
  /\ call[c].pc = "loop"
  /\ call[c].pos <= Len(logs[c])
  /\ LET proposed == logs[c][call[c].pos]
     IN call' = [call EXCEPT
                   ![c].pos = @ + 1,
                   ![c].op = proposed,
                   ![c].result =
                     IF proposed.nullified THEN Undefined
                     ELSE assureValidNextOp(did, histories[historyOf(c)], proposed),
                   ![c].pc = IF proposed.nullified THEN "loop" ELSE "awaiting"]
  /\ UNCHANGED <<did, history, op, result, pc, err, doc, logs, histories>>
  /\ UNCHANGED <<firehose, verify, importer, replaced>>

\* for (const op of ops): assureValidNextOp(did, history, op) is called and
\* runs up to its await; the call is suspended.
CallStep(c) ==
  /\ call[c].pc = "loop"
  /\ call[c].pos <= Len(logs[c])
  /\ LET proposed == logs[c][call[c].pos]
     IN call' = [call EXCEPT
                   ![c].pos = @ + 1,
                   ![c].op = proposed,
                   ![c].result =
                     assureValidNextOp(did, histories[historyOf(c)], proposed),
                   ![c].pc = "awaiting"]
  /\ UNCHANGED <<did, history, op, result, pc, err, doc, logs, histories>>
  /\ UNCHANGED <<firehose, verify, importer, replaced>>

\* The awaited step settles: ({ ops: history } = ...) or the call rejects.
CallSettle(c) ==
  /\ call[c].pc = "awaiting"
  /\ IF call[c].result.ok
     THEN /\ histories' = [histories EXCEPT ![historyOf(c)] = call[c].result.ops]
          /\ call' = [call EXCEPT ![c].pc = "loop", ![c].result = Undefined]
     ELSE /\ histories' = histories
          /\ call' = [call EXCEPT ![c].pc = "threw",
                                  ![c].err = call[c].result.err,
                                  ![c].result = Undefined]
  /\ UNCHANGED <<did, history, op, result, pc, err, doc, logs>>
  /\ UNCHANGED <<firehose, verify, importer, replaced>>

\* return opToData(did, history.at(-1)!.operation)
CallReturn(c) ==
  /\ call[c].pc = "loop"
  /\ call[c].pos > Len(logs[c])
  /\ LET h == histories[historyOf(c)]
     IN IF Len(h) = 0
        THEN call' = [call EXCEPT ![c].pc = "threw", ![c].err = TypeError]
        ELSE call' = [call EXCEPT ![c].pc = "returned",
                                  ![c].doc = opToData(did, h[Len(h)].operation)]
  /\ UNCHANGED <<did, history, op, result, pc, err, doc, logs, histories>>
  /\ UNCHANGED <<firehose, verify, importer, replaced>>

ConcurrentNext ==
  \/ \E c \in Calls : CallStep(c)
  \/ \E c \in Calls : CallSettle(c)
  \/ \E c \in Calls : CallReturn(c)

ConcurrentSpec == ConcurrentInit /\ [][ConcurrentNext]_vars

\* ------------------------------------------------------ the /did:plc route

\* The most rows the records table holds.
MaxRecords == 3

\* did.slice("did:plc:".length): the key a row is stored under.
sliceDid(d) == d[2]

\* The records table: rows under the key of their DID.
Tables ==
  {t \in SUBSET ({sliceDid(d) : d \in DidInputs} \X LogRows) :
     Cardinality(t) <= MaxRecords}

\* SELECT * FROM records WHERE did = ? order by created_at asc: the rows of
\* the DID in every order the database may give them, rows with equal
\* created_at in either order.
Select(table, d) ==
  LET rows == {r \in LogRows : <<sliceDid(d), r>> \in table}
  IN {f \in [1..Cardinality(rows) -> rows] :
        /\ \A i, j \in 1..Cardinality(rows) : i # j => f[i] # f[j]
        /\ \A i, j \in 1..Cardinality(rows) :
             i < j => DateParse(f[i].createdAt) <= DateParse(f[j].createdAt)}

\* PlcError.is(e): the five validation errors share one base kind.
PlcErrorIs(e) ==
  e.kind \in {"MisorderedOperationError", "InvalidSignatureError",
              "GenesisHashError", "ImproperOperationError", "LateRecoveryError"}

\* The response of the route once the call has settled; the message of a
\* validation error is given by the error's kind.
RouteResponse ==
  IF call[1].pc = "returned"
  THEN [status |-> 200, body |-> call[1].doc]
  ELSE [status |-> 500,
        message |-> IF PlcErrorIs(call[1].err) THEN call[1].err.kind
                    ELSE "Internal Server Error"]

\* A request for /did:plc:<id> has selected the rows of the DID and is
\* about to call validateOperationLog with them.
RouteInit ==
  /\ did \in DidInputs
  /\ history = <<>>
  /\ op = Undefined
  /\ result = Undefined
  /\ pc = "loop"
  /\ err = NoError
  /\ doc = Undefined
  /\ \E table \in Tables : \E rows \in Select(table, did) : logs = <<rows>>
  /\ histories = << <<>> >>
  /\ call = <<[pos |-> 1, op |-> Undefined, result |-> Undefined,
               pc |-> "loop", err |-> NoError, doc |-> Undefined]>>
  /\ firehose = Undefined
  /\ verify = Undefined
  /\ importer = Undefined
  /\ replaced = <<>>

RouteNext ==
  \/ CallStep(1)
  \/ CallSettle(1)
  \/ CallReturn(1)

RouteSpec == RouteInit /\ [][RouteNext]_vars

\* ------------------------------------------------------------- firehose

\* The most WebSockets a run opens, and the most message handlers in flight.
MaxSockets == 4
MaxHandlers == 2

\* new Firehose(options): not started.  ws is "none" (undefined), "open" or
\* "closed"; timer is whether reconnectTimeout is pending; handlers counts
\* the message handlers suspended at an await; sockets counts the
\* WebSockets created; closedByUser records that close() was called after
\* the last start() by the user, openedBy who created the current socket.
FirehoseInit ==
  /\ did = Undefined
  /\ history = <<>>
  /\ op = Undefined
  /\ result = Undefined
  /\ pc = "loop"
  /\ err = NoError
  /\ doc = Undefined
  /\ logs = <<>>
  /\ histories = <<>>
  /\ call = <<>>
  /\ \E autoReconnect \in BOOLEAN :
       firehose = [autoReconnect |-> autoReconnect, ws |-> "none",
                   timer |-> FALSE, handlers |-> 0, sockets |-> 0,
                   closedByUser |-> FALSE, openedBy |-> "none"]
  /\ verify = Undefined
  /\ importer = Undefined
  /\ replaced = <<>>

firehoseFrame ==
  UNCHANGED <<did, history, op, result, pc, err, doc, logs, histories, call,
              verify, importer, replaced>>

\* start(), called by the user: this.ws = new WebSocket(...)
Start ==
  /\ firehose.sockets < MaxSockets
  /\ firehose' = [firehose EXCEPT !.ws = "open", !.sockets = @ + 1,
                                  !.closedByUser = FALSE, !.openedBy = "start"]
  /\ firehoseFrame

\* A "message" event of the open socket: the async listener starts and is
\* suspended at await this.parseMessage(data).
Message ==
  /\ firehose.ws = "open"
  /\ firehose.handlers < MaxHandlers
  /\ firehose' = [firehose EXCEPT !.handlers = @ + 1]
  /\ firehoseFrame

\* preventReconnect(): clearTimeout of a pending timer, then setTimeout.
preventReconnect(f) == [f EXCEPT !.timer = TRUE]

\* The listener runs to its end, on success and on a parse error alike:
\* finally { if (this.autoReconnect) this.preventReconnect(); }
MessageDone ==
  /\ firehose.handlers > 0
  /\ firehose' = IF firehose.autoReconnect
                 THEN preventReconnect([firehose EXCEPT !.handlers = @ - 1])
                 ELSE [firehose EXCEPT !.handlers = @ - 1]
  /\ firehoseFrame

\* close(), called by the user: this.ws?.close()
Close ==
  /\ firehose.ws # "none"
  /\ firehose' = [firehose EXCEPT !.ws = "closed", !.closedByUser = TRUE]
  /\ firehoseFrame

\* The timer fires after five seconds: reconnect() closes the socket and
\* calls start().
Reconnect ==
  /\ firehose.timer
  /\ firehose.sockets < MaxSockets
  /\ firehose' = [firehose EXCEPT !.timer = FALSE, !.ws = "open",
                                  !.sockets = @ + 1, !.openedBy = "reconnect"]
  /\ firehoseFrame

FirehoseNext ==
  \/ Start
  \/ Message
  \/ MessageDone
  \/ Close
  \/ Reconnect

FirehoseSpec == FirehoseInit /\ [][FirehoseNext]_vars

\* ------------------------------------------------- assureValidSig, by step

MaxKeys == 3

\* The allowed-key lists of a call: every list of at most MaxKeys keys, the
\* empty list and lists with repeated keys included.
KeyLists ==
  UNION {[1..n -> Keys] : n \in 0..MaxKeys}

SigInit ==
  /\ did = Undefined
  /\ history = <<>>
  /\ op = Undefined
  /\ result = Undefined
  /\ pc = "loop"
  /\ err = NoError
  /\ doc = Undefined
  /\ logs = <<>>
  /\ histories = <<>>
  /\ call = <<>>
  /\ firehose = Undefined
  /\ importer = Undefined
  /\ replaced = <<>>
  /\ \E allowedDidKeys \in KeyLists, operation \in Operations :
       verify = [allowedDidKeys |-> allowedDidKeys, op |-> operation,
                 at |-> "entry", i |-> 0, decoded |-> FALSE,
                 calls |-> <<>>, out |-> Undefined]

sigFrame ==
  UNCHANGED <<did, history, op, result, pc, err, doc, logs, histories, call,
              firehose, importer, replaced>>

\* for (const didKey of allowedDidKeys): the key of the i-th iteration
keyOfIteration_reverse(allowedDidKeys, i) ==
  allowedDidKeys[Len(allowedDidKeys) + 1 - i]
keyOfIteration(allowedDidKeys, i) == allowedDidKeys[i]

\* An entry that decodes the sig before it tests its last character.
SigEntry_decodeFirst ==
  /\ verify.at = "entry"
  /\ verify' = IF endsWithEq(verify.op.sig)
               THEN [verify EXCEPT !.at = "threw", !.decoded = TRUE,
                                   !.out = Throw(InvalidSignatureError(verify.op))]
               ELSE [verify EXCEPT !.at = "loop", !.i = 1, !.decoded = TRUE]
  /\ sigFrame

\* const { sig, ...opData } = op; the endsWith test; fromBase64Url;
\* cbor.encode
SigEntry ==
  /\ verify.at = "entry"
  /\ verify' = IF endsWithEq(verify.op.sig)
               THEN [verify EXCEPT !.at = "threw",
                                   !.out = Throw(InvalidSignatureError(verify.op))]
               ELSE [verify EXCEPT !.at = "loop", !.i = 1, !.decoded = TRUE]
  /\ sigFrame

\* One iteration of the loop: await verifySigWithDidKey, return on true.
SigTry ==
  /\ verify.at = "loop"
  /\ verify.i <= Len(verify.allowedDidKeys)
  /\ LET didKey == keyOfIteration(verify.allowedDidKeys, verify.i)
         sigBytes == fromBase64Url(verify.op.sig)
         dataBytes == cborEncode(OmitSig(verify.op))
         isValid == verifySigWithDidKey(didKey, sigBytes, dataBytes)
     IN verify' = IF isValid
                  THEN [verify EXCEPT !.at = "returned",
                                      !.calls = Append(@, didKey),
                                      !.out = [ok |-> TRUE, didKey |-> didKey]]
                  ELSE [verify EXCEPT !.i = @ + 1,
                                      !.calls = Append(@, didKey)]
  /\ sigFrame

\* The loop ran out of keys: throw new InvalidSignatureError(op)
SigThrow ==
  /\ verify.at = "loop"
  /\ verify.i > Len(verify.allowedDidKeys)
  /\ verify' = [verify EXCEPT !.at = "threw",
                              !.out = Throw(InvalidSignatureError(verify.op))]
  /\ sigFrame

SigNext == SigEntry \/ SigTry \/ SigThrow

SigSpec == SigInit /\ [][SigNext]_vars

\* ---------------------------------------------------------------- importer

\* The most lines of one download.
MaxLines == 2

\* Byte strings are sequences of one-character strings; equals(a, b) of
\* @std/bytes is their equality.

\* data.subarray(begin, end): a negative index counts from the end and both
\* are clamped to the array; an omitted end is the array's length.
subarray(data, begin, end) ==
  LET clamp(k) ==
        IF k < 0 THEN (IF Len(data) + k < 0 THEN 0 ELSE Len(data) + k)
        ELSE (IF k > Len(data) THEN Len(data) ELSE k)
  IN SubSeq(data, clamp(begin) + 1, clamp(end))

\* data.indexOf(needle) and data.lastIndexOf(needle), zero-based, -1 when
\* the byte is absent.
byteIndexOf(data, needle) ==
  LET at == {i \in 1..Len(data) : data[i] = needle}
  IN IF at = {} THEN -1 ELSE (CHOOSE i \in at : \A j \in at : i <= j) - 1
byteLastIndexOf(data, needle) ==
  LET at == {i \in 1..Len(data) : data[i] = needle}
  IN IF at = {} THEN -1 ELSE (CHOOSE i \in at : \A j \in at : i >= j) - 1

\* The outcome of a parsing helper: the assertion held and the parts it
\* returns, or the assertion failed.
Parsed(part, rest) == [ok |-> TRUE, part |-> part, rest |-> rest]
AssertionFailed == [ok |-> FALSE, part |-> <<>>, rest |-> <<>>]

expectl(data, needle) ==
  IF subarray(data, 0, Len(needle)) = needle
  THEN Parsed(<<>>, subarray(data, Len(needle), Len(data)))
  ELSE AssertionFailed

splitl(data, needle) ==
  LET needleIndex == byteIndexOf(data, needle)
  IN IF needleIndex # -1
     THEN Parsed(subarray(data, 0, needleIndex),
                 subarray(data, needleIndex + 1, Len(data)))
     ELSE AssertionFailed

splitr(data, needle) ==
  LET needleIndex == byteLastIndexOf(data, needle)
  IN IF needleIndex # -1
     THEN Parsed(subarray(data, needleIndex + 1, Len(data)),
                 subarray(data, 0, needleIndex + 1))
     ELSE AssertionFailed

expectr(data, needle) ==
  IF subarray(data, -1 * Len(needle), Len(data)) = needle
  THEN Parsed(<<>>, subarray(data, 0, -1 * Len(needle)))
  ELSE AssertionFailed

\* A boolr that drops the needle it matched.
boolr_matched(data, needle_true, needle_false) ==
  IF subarray(data, -1 * Len(needle_true), Len(data)) = needle_true
  THEN Parsed(1, subarray(data, 0, -1 * Len(needle_true)))
  ELSE IF subarray(data, -1 * Len(needle_false), Len(data)) = needle_false
  THEN Parsed(0, subarray(data, 0, -1 * Len(needle_false)))
  ELSE AssertionFailed
boolr(data, needle_true, needle_false) ==
  IF subarray(data, -1 * Len(needle_true), Len(data)) = needle_true
  THEN Parsed(1, subarray(data, 0, -1 * Len(needle_false)))
  ELSE IF subarray(data, -1 * Len(needle_false), Len(data)) = needle_false
  THEN Parsed(0, subarray(data, 0, -1 * Len(needle_false)))
  ELSE AssertionFailed

t_didplc ==
  <<"{", "\"", "d", "i", "d", "\"", ":", "\"", "d", "i", "d", ":", "p",
    "l", "c", ":">>
t_op ==
  <<",", "\"", "o", "p", "e", "r", "a", "t", "i", "o", "n", "\"", ":">>
t_end ==
  <<"\"", "}">>
t_createdAt ==
  <<",", "\"", "c", "r", "e", "a", "t", "e", "d", "A", "t", "\"", ":",
    "\"">>
t_notnull ==
  <<"\"", ",", "\"", "n", "u", "l", "l", "i", "f", "i", "e", "d", "\"",
    ":", "f", "a", "l", "s", "e">>
t_null ==
  <<"\"", ",", "\"", "n", "u", "l", "l", "i", "f", "i", "e", "d", "\"",
    ":", "t", "r", "u", "e">>
t_cid ==
  <<",", "\"", "c", "i", "d", "\"", ":", "\"">>

\* The templates of the export encoder, tmpl_did_first to tmpl_false, as the
\* fields of one record.
tmpl ==
  [did_first |->
     <<"{", "\"", "d", "i", "d", "\"", ":", "\"", "d", "i", "d", ":", "p",
       "l", "c", ":">>,
   op |->
     <<"\"", ",", "\"", "o", "p", "e", "r", "a", "t", "i", "o", "n", "\"",
       ":">>,
   cid |-> <<",", "\"", "c", "i", "d", "\"", ":", "\"">>,
   nullified |->
     <<"\"", ",", "\"", "n", "u", "l", "l", "i", "f", "i", "e", "d", "\"",
       ":">>,
   createdAt |->
     <<",", "\"", "c", "r", "e", "a", "t", "e", "d", "A", "t", "\"", ":",
       "\"">>,
   end |-> <<"\"", "}">>,
   true |-> <<"t", "r", "u", "e">>,
   false |-> <<"f", "a", "l", "s", "e">>]

\* Date.prototype.toJSON and Date.parse on the instants of the first ten
\* seconds of the epoch: YYYY-MM-DDTHH:mm:ss.sssZ.
Digits == <<"0", "1", "2", "3", "4", "5", "6", "7", "8", "9">>
digitValue(c) == CHOOSE n \in 0..9 : Digits[n + 1] = c
toJSON(time) ==
  <<"1", "9", "7", "0", "-", "0", "1", "-", "0", "1", "T", "0", "0", ":",
    "0", "0", ":", "0">>
    \o <<Digits[(time \div 1000) + 1], ".",
         Digits[((time \div 100) % 10) + 1],
         Digits[((time \div 10) % 10) + 1], Digits[(time % 10) + 1], "Z">>
DateParseIso(text) ==
  1000 * digitValue(text[19]) + 100 * digitValue(text[21])
    + 10 * digitValue(text[22]) + digitValue(text[23])

\* encode(value, true) of the export: the chunks, concatenated.
encode(value) ==
  tmpl.did_first \o value.did \o tmpl.op \o value.operation \o tmpl.cid
    \o value.cid \o tmpl.nullified
    \o (IF value.nullified # 0 THEN tmpl.true ELSE tmpl.false)
    \o tmpl.createdAt \o toJSON(value.created_at) \o tmpl.end

\* The parts of the lines of a download; the operations are
\* {"type":"plc_tombstone"} and {}.
WireDids == {<<"a", "b", "c">>, <<"x", "y", "z">>}
WireOps ==
  {<<"{", "\"", "t", "y", "p", "e", "\"", ":", "\"", "p", "l", "c", "_",
     "t", "o", "m", "b", "s", "t", "o", "n", "e", "\"", "}">>,
   <<"{", "}">>}
WireCids == {<<"b", "a", "f", "y">>, <<"b", "a", "f">>}
WireTimes == {0, 1001}

\* A line of the export as the upstream directory writes it:
\* {"did":"did:plc:<id>","operation":<json-op>,"cid":"<base32-cid>",
\*  "nullified":<bool>,"createdAt":"<iso>"}
WireLine(d, operation, cid, nullified, iso) ==
  <<"{", "\"", "d", "i", "d", "\"", ":", "\"", "d", "i", "d", ":", "p", "l", "c", ":">> \o d
    \o <<"\"", ",", "\"", "o", "p", "e", "r", "a", "t", "i", "o", "n", "\"", ":">> \o operation
    \o <<",", "\"", "c", "i", "d", "\"", ":", "\"">> \o cid
    \o <<"\"", ",", "\"", "n", "u", "l", "l", "i", "f", "i", "e", "d", "\"", ":">> \o (IF nullified THEN <<"t", "r", "u", "e">> ELSE <<"f", "a", "l", "s", "e">>)
    \o <<",", "\"", "c", "r", "e", "a", "t", "e", "d", "A", "t", "\"", ":", "\"">> \o iso
    \o <<"\"", "}">>

WireLines ==
  {WireLine(d, o, c, n, toJSON(t)) :
     d \in WireDids, o \in WireOps, c \in WireCids, n \in BOOLEAN, t \in WireTimes}

\* The lines of one download.
Downloads == UNION {[1..n -> WireLines] : n \in 1..MaxLines}

ImportInit ==
  /\ did = Undefined
  /\ history = <<>>
  /\ op = Undefined
  /\ result = Undefined
  /\ pc = "loop"
  /\ err = NoError
  /\ doc = Undefined
  /\ logs = <<>>
  /\ histories = <<>>
  /\ call = <<>>
  /\ firehose = Undefined
  /\ verify = Undefined
  /\ replaced = <<>>
  /\ \E stream \in Downloads :
       importer = [stream |-> stream, line |-> <<>>, rows |-> <<>>,
                   table |-> <<>>, after |-> <<>>, after_cid |-> <<>>,
                   at |-> "reading", pushed |-> FALSE]

importFrame ==
  UNCHANGED <<did, history, op, result, pc, err, doc, logs, histories, call,
              firehose, verify, replaced>>

\* The parsing of one line: the row it yields, or a failed assertion.
parseLine(line0) ==
  LET a == expectl(line0, t_didplc)
      b == splitl(a.rest, "\"")
      c == expectl(b.rest, t_op)
      e == expectr(c.rest, t_end)
      f == splitr(e.rest, "\"")
      g == expectr(f.rest, t_createdAt)
      h == boolr(g.rest, t_null, t_notnull)
      i == splitr(h.rest, "\"")
      j == expectr(i.rest, t_cid)
  IN IF a.ok /\ b.ok /\ c.ok /\ e.ok /\ f.ok /\ g.ok /\ h.ok /\ i.ok
     THEN [ok |-> TRUE, expectCid |-> j.ok,
           row |-> [cid |-> i.part, did |-> b.part, operation |-> j.rest,
                    nullified |-> h.part, created_at |-> DateParseIso(f.part)]]
     ELSE [ok |-> FALSE]

\* commitTx(rows): the rows are inserted in order.
commitTx(table, rows) == table \o rows

\* One iteration of the loop over the lines of the download.
ImportLine ==
  /\ importer.at = "reading"
  /\ importer.stream # <<>>
  /\ LET line == Head(importer.stream)
         p == parseLine(line)
         read == [importer EXCEPT !.stream = Tail(@), !.line = line,
                                  !.pushed = FALSE]
     IN importer' =
          IF ~p.ok
          THEN [read EXCEPT !.at = "threw"]
          ELSE IF importer.after_cid # <<>> /\ p.row.cid = importer.after_cid[1]
          THEN read
          ELSE IF ~p.expectCid
          THEN [read EXCEPT !.at = "threw"]
          ELSE LET rows == Append(importer.rows, p.row)
               IN IF Len(rows) > 500
                  THEN [read EXCEPT !.after_cid = <<p.row.cid>>,
                                    !.after = <<p.row.created_at>>,
                                    !.pushed = TRUE,
                                    !.table = commitTx(@, rows), !.rows = <<>>]
                  ELSE [read EXCEPT !.after_cid = <<p.row.cid>>,
                                    !.after = <<p.row.created_at>>,
                                    !.pushed = TRUE, !.rows = rows]
  /\ importFrame

\* The download has ended: commitTx(rows)
ImportCommit ==
  /\ importer.at = "reading"
  /\ importer.stream = <<>>
  /\ importer' = [importer EXCEPT !.table = commitTx(@, importer.rows),
                                  !.rows = <<>>, !.at = "committed"]
  /\ importFrame

ImportNext == ImportLine \/ ImportCommit

ImportSpec == ImportInit /\ [][ImportNext]_vars

\* ------------------------------------------------- forks at one ancestor

\* A third rotation key, the least powerful of the list.
K3 == "did:key:zK3"
ForkKeyList == <<K1, K2, K3>>

\* The proposals of a log whose operations all carry the three keys: signed
\* by any of them, naming no predecessor or one by its cid.
ForkProposals ==
  {[operation |-> addSignature(UnsignedV2(ForkKeyList, prev), k),
    cid |-> c, createdAt |-> t] :
     prev \in {Null, CidA, CidB}, k \in {K1, K2, K3},
     c \in {CidA, CidB}, t \in {[day |-> 1, ms |-> 0]}}

ForkInit ==
  /\ did = didForCreateOp(addSignature(UnsignedV2(ForkKeyList, Null), K1))
  /\ history = <<>>
  /\ op = Undefined
  /\ result = Undefined
  /\ pc = "loop"
  /\ err = NoError
  /\ doc = Undefined
  /\ logs = <<>>
  /\ histories = <<>>
  /\ call = <<>>
  /\ firehose = Undefined
  /\ verify = Undefined
  /\ importer = Undefined
  /\ replaced = <<>>

\* ({ ops: history } = ...), with the record of what the step replaced: a
\* fork at position i adds the operation it removed from position i + 1 to
\* the record of position i and forgets the records of the positions whose
\* operations it removed; every accepted step opens an empty record for the
\* operation it adds.
ForkAssign ==
  /\ pc = "resolved"
  /\ history' = result.ops
  /\ result' = Undefined
  /\ pc' = "loop"
  /\ LET i == Len(result.ops) - 1
     IN replaced' =
          IF Len(result.nullified) = 0
          THEN Append(replaced, <<>>)
          ELSE Append([k \in 1..i |->
                         IF k = i THEN Append(replaced[i], history[i + 1])
                         ELSE replaced[k]],
                      <<>>)
  /\ UNCHANGED <<did, op, err, doc>>
  /\ UNCHANGED <<logs, histories, call, firehose, verify, importer>>

ForkNext ==
  \/ \E proposed \in ForkProposals : Step(proposed)
  \/ ForkAssign
  \/ Return

ForkSpec == ForkInit /\ [][ForkNext]_vars

\* ------------------------------------------------- unparseable createdAt

\* A createdAt string that Date.parse cannot read.
InvalidDate == [text |-> "not a date"]

\* The proposals of a log whose rows may carry such a createdAt: updates
\* with the keys K1, K2, signed by either, naming no predecessor or one by
\* its cid.
DateProposals ==
  {[operation |-> addSignature(UnsignedV2(<<K1, K2>>, prev), k),
    cid |-> c, createdAt |-> t] :
     prev \in {Null} \cup CidStrs, k \in Keys, c \in CidStrs,
     t \in CreatedAts \cup {InvalidDate}}

DateNext ==
  \/ \E proposed \in DateProposals : Step(proposed)
  \/ Assign
  \/ Return

DateSpec == Init /\ [][DateNext]_vars

\* ---------------------------------------------------------------- claims

\* A step has just been decided: op is the proposed operation, history the
\* confirmed history it was proposed to, and result (when accepted) or err
\* (when rejected) what assureValidNextOp answered.
StepAccepted == pc = "resolved"
StepRejected == pc = "threw" /\ op # Undefined /\ err.kind # "TypeError"

\* The first position of the history whose cid is the proposed prev; 0 when
\* prev is null or names no operation of the history.
FirstMatch(h, proposed) ==
  IF proposed.operation.prev = Null THEN 0
  ELSE LET at == {i \in 1..Len(h) : h[i].cid = proposed.operation.prev}
       IN IF at = {} THEN 0 ELSE CHOOSE i \in at : \A j \in at : i <= j

\* The operation's signature is a well-formed one made by `key` over the
\* operation without its sig field.
SignedBy(key, operation) ==
  /\ ~operation.sig.pad
  /\ operation.sig.by = key
  /\ operation.sig.over = cborEncode(OmitSig(operation))

\* The positions of `keys` whose key verifies the operation's signature.
VerifyingAt(keys, operation) ==
  {i \in 1..Len(keys) : SignedBy(keys[i], operation)}

\* The rotation keys an operation declares, in the v2 view.
RotationKeysOf(operation) ==
  IF operation.type = "plc_operation" THEN operation.rotationKeys
  ELSE IF operation.type = "create"
  THEN <<operation.recoveryKey, operation.signingKey>>
  ELSE <<>>

Min(S) == CHOOSE i \in S : \A j \in S : i <= j

\* Every confirmed history of the state: the driver's, and the one an
\* accepted step hands back.
ConfirmedHistories == {history} \cup (IF StepAccepted THEN {result.ops} ELSE {})

\* C1. Chain continuity: in every confirmed history the first operation has
\* prev null and every later operation's prev is the cid of the operation
\* right before it, after plain extensions and after forks alike.
C1_ChainContinuity ==
  \A h \in ConfirmedHistories :
    /\ Len(h) >= 1 => h[1].operation.prev = Null
    /\ \A i \in 2..Len(h) : h[i].operation.prev = h[i - 1].cid

\* A fork of a three-operation history has just been accepted.
C1_Witness ==
  /\ StepAccepted
  /\ Len(history) = 3
  /\ Len(result.nullified) >= 1
  /\ Len(result.ops) >= 2

\* C2 as stated: from a confirmed history that ends in a tombstone no step is
\* accepted, so no longer log validates.
C2_NoStepAfterTombstone ==
  StepAccepted =>
    ~(Len(history) >= 1 /\ isTombstone(history[Len(history)].operation))

\* C2, amended. From a confirmed history that ends in a tombstone a step is
\* accepted only as a fork that removes the tombstone: the proposed prev names
\* an earlier operation, the tombstone is the last cid nullified, and the new
\* history is no longer than the old one.
C2_TombstoneFinality ==
  (StepAccepted /\ Len(history) >= 1
     /\ isTombstone(history[Len(history)].operation)) =>
    /\ FirstMatch(history, op) \in 1..(Len(history) - 1)
    /\ Len(result.nullified) >= 1
    /\ result.nullified[Len(result.nullified)] = history[Len(history)].cid
    /\ Len(result.ops) <= Len(history)
    /\ \A i \in 1..Len(result.ops) : ~isTombstone(result.ops[i].operation)
                                      \/ result.ops[i] = op

\* A tombstone at the end of the history has just been nullified.
C2_Witness ==
  /\ StepAccepted
  /\ Len(history) >= 2
  /\ isTombstone(history[Len(history)].operation)
  /\ Len(result.nullified) >= 1

\* C3 as stated: a proposed operation whose prev is the cid of any tombstone
\* of the confirmed history is rejected with MisorderedOperationError.
C3_PrevOfAnyTombstone ==
  (StepAccepted \/ StepRejected) =>
    ((\E i \in 1..Len(history) :
         /\ isTombstone(history[i].operation)
         /\ history[i].cid = op.operation.prev)
       => (pc = "threw" /\ err = MisorderedOperationError))

\* C3, amended. A proposed operation whose prev selects a tombstone (the first
\* operation of the confirmed history carrying that cid is a tombstone) is
\* rejected with MisorderedOperationError, whatever its signature, type and
\* createdAt.
C3_PrevOfTombstone ==
  (StepAccepted \/ StepRejected) =>
    LET i == FirstMatch(history, op)
    IN (i >= 1 /\ isTombstone(history[i].operation))
         => (pc = "threw" /\ err = MisorderedOperationError)

\* A correctly signed operation naming the tombstone has just been rejected.
C3_Witness ==
  /\ StepRejected
  /\ Len(history) = 2
  /\ isTombstone(history[2].operation)
  /\ FirstMatch(history, op) = 2
  /\ VerifyingAt(RotationKeysOf(history[1].operation), op.operation) # {}
  /\ err = MisorderedOperationError

\* C4. A tombstone is only ever the last operation of a confirmed history,
\* and never the first.
C4_TombstoneOnlyLast ==
  \A h \in ConfirmedHistories :
    /\ Len(h) >= 1 => ~isTombstone(h[1].operation)
    /\ \A i \in 1..(Len(h) - 1) : ~isTombstone(h[i].operation)

\* The driver holds a three-operation history that ends in a tombstone.
C4_Witness ==
  /\ pc = "loop"
  /\ Len(history) = 3
  /\ isTombstone(history[3].operation)

\* C5. Signature authority: the first confirmed operation is signed by one of
\* its own rotation keys, every later one by a rotation key of the operation
\* right before it.
C5_SignatureAuthority ==
  \A h \in ConfirmedHistories :
    /\ Len(h) >= 1 => VerifyingAt(RotationKeysOf(h[1].operation), h[1].operation) # {}
    /\ \A i \in 2..Len(h) :
         VerifyingAt(RotationKeysOf(h[i - 1].operation), h[i].operation) # {}

\* The second operation dropped K1 from the rotation keys, and the third is
\* signed by K2.
C5_Witness ==
  /\ pc = "loop"
  /\ Len(history) = 3
  /\ RotationKeysOf(history[1].operation) = <<K1, K2>>
  /\ RotationKeysOf(history[2].operation) = <<K2>>
  /\ SignedBy(K2, history[3].operation)

\* The proposed prev selects an operation that is neither the last of the
\* history nor a tombstone: accepted, the step removes a non-empty tail.
ForkProposed ==
  LET i == FirstMatch(history, op)
  IN i >= 1 /\ i < Len(history) /\ ~isTombstone(history[i].operation)

\* The rotation keys of the operation the proposed prev selects.
AncestorKeys == RotationKeysOf(history[FirstMatch(history, op)].operation)

\* The first operation a fork displaces.
FirstNullified == history[FirstMatch(history, op) + 1]

\* Milliseconds of a createdAt value.
Millis(createdAt) == (createdAt.day * 24 * 3600) * 1000 + createdAt.ms

\* proposed.createdAt - firstNullified.createdAt, in milliseconds.
Lapse == Millis(op.createdAt) - Millis(FirstNullified.createdAt)

\* Both signature checks of a fork pass: the displaced operation verifies
\* under the ancestor's keys, the proposed one under a strictly earlier key.
ForkSignaturesPass ==
  LET displaced == VerifyingAt(AncestorKeys, FirstNullified.operation)
      proposer == VerifyingAt(AncestorKeys, op.operation)
  IN displaced # {} /\ proposer # {} /\ Min(proposer) < Min(displaced)

\* C6. Power ordering: a step that removes a non-empty tail is accepted only
\* when the proposed operation is signed by a key of the ancestor strictly
\* earlier in its rotation-key list than the first key that verifies the first
\* nullified operation; when that key is the first of the list the step fails
\* with InvalidSignatureError.
C6_PowerOrdering ==
  /\ (StepAccepted /\ Len(result.nullified) >= 1) =>
       (ForkProposed /\ ForkSignaturesPass)
  /\ (StepAccepted /\ Len(history) >= 1 /\ FirstMatch(history, op) < Len(history)) =>
       Len(result.nullified) >= 1
  /\ (StepRejected /\ ForkProposed
        /\ VerifyingAt(AncestorKeys, FirstNullified.operation) # {}
        /\ Min(VerifyingAt(AncestorKeys, FirstNullified.operation)) = 1) =>
       err = InvalidSignatureError(op.operation)

\* Scenario S3: an operation signed by K2 has just been displaced by one
\* signed by K1, under the ancestor's keys <<K1, K2>>.
C6_Witness ==
  /\ StepAccepted
  /\ Len(result.nullified) >= 1
  /\ AncestorKeys = <<K1, K2>>
  /\ SignedBy(K2, FirstNullified.operation)
  /\ SignedBy(K1, op.operation)

\* C7. Recovery window: an accepted fork has proposed.createdAt at most 72
\* hours after the first nullified operation's; a fork whose signatures pass is
\* rejected only when it is later than that, and then with LateRecoveryError
\* carrying the milliseconds elapsed (72 hours exactly is accepted, one
\* millisecond more is not).
C7_RecoveryWindow ==
  /\ (StepAccepted /\ Len(result.nullified) >= 1) => Lapse <= 72 * 3600 * 1000
  /\ (StepRejected /\ ForkProposed /\ ForkSignaturesPass) =>
       (Lapse > 72 * 3600 * 1000 /\ err = LateRecoveryError(Lapse))
  /\ (StepRejected /\ err.kind = "LateRecoveryError") =>
       (ForkProposed /\ err.timeLapsed = Lapse /\ Lapse >= 72 * 3600 * 1000 + 1)

\* A fork exactly 72 hours after the operation it displaces has just been
\* accepted.
C7_Witness ==
  /\ StepAccepted
  /\ Len(result.nullified) >= 1
  /\ Lapse = 259200000

\* C8. Genesis binding: the DID a log is validated under is the one derived
\* from the first confirmed operation; a correctly signed first operation that
\* derives another DID is rejected with GenesisHashError carrying the derived
\* DID.
C8_GenesisBinding ==
  /\ \A h \in ConfirmedHistories :
       Len(h) >= 1 => did = didForCreateOp(h[1].operation)
  /\ (StepRejected /\ Len(history) = 0 /\ ~isTombstone(op.operation)
        /\ VerifyingAt(RotationKeysOf(op.operation), op.operation) # {}
        /\ didForCreateOp(op.operation) # did) =>
       (/\ err = GenesisHashError(didForCreateOp(op.operation))
        /\ err.expected # did)

\* Scenario S2: a correctly signed first operation has just been rejected
\* under a DID that is not its own.
C8_Witness ==
  /\ StepRejected
  /\ Len(history) = 0
  /\ err.kind = "GenesisHashError"
  /\ err.expected # did
  /\ op.operation.prev = Null

\* The document of a v1 create operation of the model (scenario S7) and of a
\* v2 operation.
DocumentOf(operation) ==
  IF operation.type = "create"
  THEN [did |-> did,
        verificationMethods |-> [atproto |-> operation.signingKey],
        rotationKeys |-> <<operation.recoveryKey, operation.signingKey>>,
        alsoKnownAs |-> <<<<"at://", "alice.test">>>>,
        services |-> [atproto_pds |->
                        [type |-> "AtprotoPersonalDataServer",
                         endpoint |-> <<"https://", "pds.test">>]]]
  ELSE [did |-> did,
        verificationMethods |-> operation.verificationMethods,
        rotationKeys |-> operation.rotationKeys,
        alsoKnownAs |-> operation.alsoKnownAs,
        services |-> operation.services]

\* C9. Driver result: a call that returns does so on a non-empty confirmed
\* history, with null exactly when the last confirmed operation is a
\* tombstone and otherwise with the document of that operation.
C9_DriverResult ==
  pc = "returned" =>
    /\ Len(history) >= 1
    /\ (doc = Null) <=> isTombstone(history[Len(history)].operation)
    /\ ~isTombstone(history[Len(history)].operation) =>
         doc = DocumentOf(history[Len(history)].operation)

\* A log whose confirmed history ends in a tombstone has returned null.
C9_Witness ==
  /\ pc = "returned"
  /\ Len(history) = 3
  /\ doc = Null

\* C10. Error propagation: from the head of the loop the driver takes the
\* next operation or returns, never passing an operation over; a step that
\* fails ends the call with that step's error, with no document; and after a
\* failure nothing more happens.
C10_ErrorPropagation ==
  [][/\ pc = "loop" => pc' # "loop"
     /\ (pc = "loop" /\ pc' = "resolved") =>
          (assureValidNextOp(did, history, op').ok /\ err' = NoError)
     /\ (pc = "loop" /\ pc' = "threw" /\ err'.kind # "TypeError") =>
          (/\ ~assureValidNextOp(did, history, op').ok
           /\ err' = assureValidNextOp(did, history, op').err
           /\ doc' = Undefined)
     /\ pc = "threw" => UNCHANGED vars]_vars

\* The third operation of a log has just failed its signature check.
C10_Witness ==
  /\ StepRejected
  /\ Len(history) = 2
  /\ err = InvalidSignatureError(op.operation)

\* C11. A call with an empty ops list ends in a runtime failure: a call that
\* returns has taken at least one operation, and a call that ends without
\* having taken any has thrown the TypeError of history.at(-1)!.operation,
\* with no document and no null.
C11_EmptyLogFails ==
  /\ pc = "returned" => (op # Undefined /\ Len(history) >= 1 /\ doc # Undefined)
  /\ (op = Undefined /\ pc # "loop") =>
       (pc = "threw" /\ err = TypeError /\ doc = Undefined /\ history = <<>>)

\* The call on an empty log has failed.
C11_Witness ==
  /\ op = Undefined
  /\ pc = "threw"
  /\ err = TypeError

\* A concurrent call has ended.
Ended(c) == call[c].pc \in {"returned", "threw"}

\* What a caller sees of an ended call: whether it returned or threw, the
\* document or null, and the error.
Outcome(c) == [pc |-> call[c].pc, doc |-> call[c].doc, err |-> call[c].err]

\* C12. Determinism under concurrency: two calls on the same (did, ops), with
\* their steps interleaved in any order, end with the same outcome (the same
\* document, both null, or the same error), and each call's history buffer
\* holds what that call alone put there.
C12_ConcurrentDeterminism ==
  logs[1] = logs[2] =>
    /\ (Ended(1) /\ Ended(2)) =>
         (Outcome(1) = Outcome(2) /\ histories[1] = histories[2])
    /\ \A c \in Calls :
         /\ Len(histories[c]) < call[c].pos
         /\ \A i \in 1..Len(histories[c]) :
              \E j \in 1..(call[c].pos - 1) : histories[c][i] = logs[c][j]

\* Both calls ran the same three-operation log, whose last operation forks
\* the history, to the end and returned.
C12_Witness ==
  /\ logs[1] = logs[2]
  /\ Len(logs[1]) = 3
  /\ Ended(1) /\ Ended(2)
  /\ call[1].pc = "returned"
  /\ Len(histories[1]) = 2

\* The indexed operations of a history as the validator reads them: the
\* operation, its cid and its createdAt, without the nullified flag.
Unflagged(h) ==
  [i \in 1..Len(h) |->
     [operation |-> h[i].operation, cid |-> h[i].cid, createdAt |-> h[i].createdAt]]

\* C13. The nullified flag is not trusted: two logs that differ only in the
\* nullified flags of their rows end with the same outcome (the same
\* document, both null, or the same error) and with the same operations
\* confirmed, so that the same operations were nullified.
C13_NullifiedFlagIgnored ==
  (Ended(1) /\ Ended(2)) =>
    /\ Outcome(1) = Outcome(2)
    /\ Unflagged(histories[1]) = Unflagged(histories[2])

\* A log whose recovery nullifies its second operation was validated with
\* every flag false and with the genesis and the recovery flagged instead.
C13_Witness ==
  /\ Ended(1) /\ Ended(2)
  /\ Len(logs[1]) = 3
  /\ Len(histories[1]) = 2
  /\ call[1].pc = "returned"
  /\ logs[2][1].nullified /\ ~logs[2][2].nullified /\ logs[2][3].nullified

\* C14 as stated: the route calls validateOperationLog with at least one
\* operation, whatever DID is requested, and answers 500 with a validation
\* message only for a validation error.
C14_RouteNeverEmpty ==
  /\ Len(logs[1]) >= 1
  /\ (Ended(1) /\ RouteResponse.status = 500
        /\ RouteResponse.message # "Internal Server Error") =>
       PlcErrorIs(call[1].err)

\* A DID without stored rows was requested: validateOperationLog was called
\* with an empty list, threw a TypeError, and the route answered 500
\* "Internal Server Error".
C14_Witness ==
  /\ Len(logs[1]) = 0
  /\ call[1].pc = "threw"
  /\ call[1].err = TypeError
  /\ RouteResponse = [status |-> 500, message |-> "Internal Server Error"]

\* C15 as stated: once the user has called close(), no WebSocket is opened
\* until the user calls start() again.
C15_NoReconnectAfterClose ==
  firehose.closedByUser => firehose.ws # "open"

\* After close() the pending timer has fired and reconnect() has opened a
\* new WebSocket.
C15_Witness ==
  /\ firehose.autoReconnect
  /\ firehose.closedByUser
  /\ firehose.ws = "open"
  /\ firehose.openedBy = "reconnect"
  /\ firehose.sockets = 2

\* C16 as stated: every confirmed operation after the first names, as prev,
\* the cid computed from the content of the operation right before it.
C16_ContentBoundChaining ==
  \A c \in DOMAIN histories :
    \A i \in 2..Len(histories[c]) :
      histories[c][i].operation.prev = cidOf(histories[c][i - 1].operation)

\* A log was validated to the end whose second operation names the cid its
\* predecessor is stored under, which is not the cid of the predecessor's
\* content.
C16_Witness ==
  /\ call[1].pc = "returned"
  /\ Len(histories[1]) = 2
  /\ histories[1][1].cid # cidOf(histories[1][1].operation)
  /\ histories[1][2].operation.prev = histories[1][1].cid
  /\ histories[1][2].operation.prev # cidOf(histories[1][1].operation)

\* C17 as stated: no two operations of a confirmed history share a cid.
C17_DistinctCids ==
  \A h \in ConfirmedHistories :
    \A i, j \in 1..Len(h) : i # j => h[i].cid # h[j].cid

\* An operation stored under the cid of its own predecessor has just been
\* accepted as an extension.
C17_Witness ==
  /\ StepAccepted
  /\ Len(history) = 1
  /\ Len(result.ops) = 2
  /\ result.ops[2].cid = result.ops[1].cid

\* The proposed operation is signed by one of its own rotation keys.
SelfSigned == VerifyingAt(RotationKeysOf(op.operation), op.operation) # {}

\* C18. Genesis error precedence: proposed to the empty history, a tombstone
\* fails with MisorderedOperationError; otherwise a bad signature fails with
\* InvalidSignatureError whatever the DID; otherwise a mismatching DID fails
\* with GenesisHashError whatever the prev; otherwise a non-null prev fails
\* with ImproperOperationError; otherwise the step returns
\* {nullified: [], prev: null, ops: [proposed]}.
C18_GenesisPrecedence ==
  ((StepAccepted \/ StepRejected) /\ Len(history) = 0) =>
    IF isTombstone(op.operation)
    THEN StepRejected /\ err = MisorderedOperationError
    ELSE IF ~SelfSigned
    THEN StepRejected /\ err = InvalidSignatureError(op.operation)
    ELSE IF didForCreateOp(op.operation) # did
    THEN StepRejected /\ err = GenesisHashError(didForCreateOp(op.operation))
    ELSE IF op.operation.prev # Null
    THEN /\ StepRejected
         /\ err = ImproperOperationError("expected null prev on create", op.operation)
    ELSE /\ StepAccepted
         /\ result.nullified = <<>>
         /\ result.prev = Null
         /\ result.ops = <<op>>

\* A first operation with a valid signature, another DID and a non-null prev
\* has just been rejected with GenesisHashError.
C18_Witness ==
  /\ StepRejected
  /\ Len(history) = 0
  /\ SelfSigned
  /\ didForCreateOp(op.operation) # did
  /\ op.operation.prev # Null
  /\ err.kind = "GenesisHashError"

\* The proposed prev is the cid of no operation of the history.
PrevUnknown ==
  \A i \in 1..Len(history) : history[i].cid # op.operation.prev

\* C19. Proposed to a non-empty history, an operation whose prev is null, or
\* is the cid of no operation the history holds now, is rejected with
\* MisorderedOperationError, whether or not its signature verifies.
C19_UnknownPrevMisordered ==
  ((StepAccepted \/ StepRejected) /\ Len(history) >= 1
     /\ (op.operation.prev = Null \/ PrevUnknown)) =>
    (StepRejected /\ err = MisorderedOperationError)

\* An operation with a non-null prev that no confirmed operation carries,
\* and with a signature that verifies under no key, has just been rejected
\* with MisorderedOperationError.
C19_Witness ==
  /\ StepRejected
  /\ Len(history) = 1
  /\ op.operation.prev # Null
  /\ PrevUnknown
  /\ \A k \in Keys : ~SignedBy(k, op.operation)
  /\ err = MisorderedOperationError

\* C20. Fork trigger and result shape: with i the first position whose cid
\* is the proposed prev, an accepted step returns, when i is the last
\* position, no nullified cid and the history with the proposal appended;
\* and when i is an earlier position, the cids of the operations after i in
\* their order and the operations up to i, unchanged, with the proposal
\* appended.
C20_ForkResultShape ==
  (StepAccepted /\ Len(history) >= 1) =>
    LET i == FirstMatch(history, op)
    IN /\ i >= 1
       /\ result.prev = CidFromString(op.operation.prev)
       /\ i = Len(history) =>
            /\ result.nullified = <<>>
            /\ result.ops = history \o <<op>>
       /\ i < Len(history) =>
            /\ result.nullified = [k \in 1..(Len(history) - i) |-> history[i + k].cid]
            /\ result.ops = [k \in 1..(i + 1) |-> IF k <= i THEN history[k] ELSE op]
            /\ Len(result.ops) = i + 1

\* A fork at the first of three operations has just been accepted: both
\* later operations are nullified.
C20_Witness ==
  /\ StepAccepted
  /\ Len(history) = 3
  /\ FirstMatch(history, op) = 1
  /\ Len(result.nullified) = 2
  /\ Len(result.ops) = 2

\* C21. Check order of a nullifying step: the signature checks come before
\* the recovery window.  A fork whose signatures do not pass (the displaced
\* operation does not verify, or the proposal is not signed by a strictly
\* more powerful key) fails with InvalidSignatureError however late it is;
\* one whose signatures pass fails with LateRecoveryError when later than 72
\* hours and is accepted otherwise.
C21_ForkCheckOrder ==
  ((StepAccepted \/ StepRejected) /\ ForkProposed) =>
    IF ~ForkSignaturesPass
    THEN /\ StepRejected
         /\ err.kind = "InvalidSignatureError"
         /\ VerifyingAt(AncestorKeys, FirstNullified.operation) # {} =>
              err = InvalidSignatureError(op.operation)
    ELSE IF Lapse > 72 * 3600 * 1000
    THEN StepRejected /\ err = LateRecoveryError(Lapse)
    ELSE StepAccepted /\ Len(result.nullified) >= 1

\* A fork signed by the same key as the operation it would displace, three
\* days and a millisecond after it, has just been rejected with
\* InvalidSignatureError.
C21_Witness ==
  /\ StepRejected
  /\ ForkProposed
  /\ AncestorKeys = <<K1, K2>>
  /\ SignedBy(K2, FirstNullified.operation)
  /\ SignedBy(K2, op.operation)
  /\ Lapse = 259200001
  /\ err = InvalidSignatureError(op.operation)

\* The answer of a step, without the lists it returns: whether it was
\* accepted, and the error if not.
Verdict(r) == IF r.ok THEN [ok |-> TRUE] ELSE [ok |-> FALSE, err |-> r.err]

\* The history with the createdAt of the operation at position j replaced.
Redated(h, j, t) ==
  [k \in 1..Len(h) |->
     IF k = j
     THEN [operation |-> h[k].operation, cid |-> h[k].cid, createdAt |-> t]
     ELSE h[k]]

\* C22. The recovery window is measured from the first nullified operation
\* only: the verdict of a fork is the verdict of the same proposal on the
\* history cut after the first nullified operation, and on the history with
\* any other createdAt on any later nullified operation.
C22_WindowFromFirstNullified ==
  ((StepAccepted \/ StepRejected) /\ ForkProposed) =>
    LET i == FirstMatch(history, op)
        verdict == IF StepAccepted THEN [ok |-> TRUE]
                   ELSE [ok |-> FALSE, err |-> err]
    IN /\ Verdict(assureValidNextOp(did, SubSeq(history, 1, i + 1), op)) = verdict
       /\ \A j \in (i + 2)..Len(history) : \A t \in CreatedAts :
            Verdict(assureValidNextOp(did, Redated(history, j, t), op)) = verdict
       /\ ForkSignaturesPass =>
            (StepAccepted <=> Lapse <= 72 * 3600 * 1000)

\* A fork that displaces two operations has just been rejected as late: it
\* is 72 h + 1 ms after the first of them and 1 ms after the second.
C22_Witness ==
  /\ StepRejected
  /\ Len(history) = 3
  /\ FirstMatch(history, op) = 1
  /\ ForkSignaturesPass
  /\ Lapse = 259200001
  /\ Millis(op.createdAt) - Millis(history[3].createdAt) = 1
  /\ err = LateRecoveryError(259200001)

\* The proposed prev selects the last operation of the history, which is no
\* tombstone, and the proposal is signed by one of that operation's keys.
ExtensionSigned ==
  /\ Len(history) >= 1
  /\ FirstMatch(history, op) = Len(history)
  /\ ~isTombstone(history[Len(history)].operation)
  /\ VerifyingAt(RotationKeysOf(history[Len(history)].operation), op.operation) # {}

\* C23. The recovery window is one-sided and createdAt need not grow: a fork
\* whose signatures pass and whose createdAt is earlier than the first
\* nullified operation's is accepted, and a correctly signed extension is
\* accepted whatever its createdAt, earlier than its predecessor's included.
C23_OneSidedWindow ==
  /\ ((StepAccepted \/ StepRejected) /\ ForkProposed /\ ForkSignaturesPass
        /\ Lapse < 0) => StepAccepted
  /\ ((StepAccepted \/ StepRejected) /\ ExtensionSigned) =>
       (StepAccepted /\ result.ops = history \o <<op>>)

\* A fork dated three days before the operation it displaces has just been
\* accepted.
C23_Witness ==
  /\ StepAccepted
  /\ ForkProposed
  /\ Len(result.nullified) >= 1
  /\ Lapse = -259200000

\* C24. A step leaves the caller's list, every operation in it and the DID as
\* they were passed in, whether it resolves or throws; a resolved step returns
\* a new list made of a prefix of the caller's list followed by the proposed
\* operation as proposed, and the cids it reports nullified are those of the
\* rest of the caller's list.
C24_StepFrame ==
  [][(pc = "loop" /\ pc' \in {"resolved", "threw"}) =>
       /\ history' = history
       /\ did' = did
       /\ pc' = "resolved" =>
            LET n == Len(result'.ops) - 1
            IN /\ n <= Len(history)
               /\ SubSeq(result'.ops, 1, n) = SubSeq(history, 1, n)
               /\ result'.ops[n + 1] = op'
               /\ result'.nullified =
                    [k \in 1..(Len(history) - n) |-> history[n + k].cid]]_vars

\* A fork has just resolved: the caller still holds the two operations it
\* passed in, the result holds the first of them and the proposed one.
C24_Witness ==
  /\ StepAccepted
  /\ Len(history) = 2
  /\ Len(result.ops) = 2
  /\ result.ops[1] = history[1]
  /\ result.ops[2] = op
  /\ result.ops[2] # history[2]
  /\ result.nullified = <<history[2].cid>>

\* The call of assureValidSig has settled.
SigSettled == verify # Undefined /\ verify.at \in {"returned", "threw"}

\* The indexes of the allowed keys that verify the call's operation with its
\* sig removed, whatever the text of the sig ends in.
SigVerifying ==
  {i \in 1..Len(verify.allowedDidKeys) :
     verifySigWithDidKey(verify.allowedDidKeys[i], fromBase64Url(verify.op.sig),
                         cborEncode(OmitSig(verify.op)))}

\* C25. assureValidSig asks the verifier about the allowed keys in list order
\* and returns the key at the lowest index that verifies the operation without
\* its sig; the index of the returned key in the list, and with it the more
\* powerful keys of a nullification, is that lowest index also when the key
\* is repeated in the list; when no key verifies or the list is empty the
\* call fails with InvalidSignatureError carrying the operation. The outcome
\* is the one the step validator computes with.
C25_FirstKeyInListOrder ==
  SigSettled =>
    LET keys == verify.allowedDidKeys
        lowest == Min(SigVerifying)
    IN /\ verify.out = assureValidSig(keys, verify.op)
       /\ verify.calls = SubSeq(keys, 1, Len(verify.calls))
       /\ IF endsWithEq(verify.op.sig) \/ SigVerifying = {}
          THEN /\ verify.at = "threw"
               /\ verify.out = Throw(InvalidSignatureError(verify.op))
          ELSE /\ verify.at = "returned"
               /\ verify.out = [ok |-> TRUE, didKey |-> keys[lowest]]
               /\ Len(verify.calls) = lowest
               /\ indexOf(keys, verify.out.didKey) = lowest
               /\ morePowerfulKeys(keys, verify.out.didKey) = SubSeq(keys, 1, lowest - 1)

\* The key that signed the operation is second and third in the list: the
\* call returned it after two verifier calls, and its power index is 2.
C25_Witness ==
  /\ SigSettled
  /\ verify.allowedDidKeys = <<K1, K2, K2>>
  /\ SigVerifying = {2, 3}
  /\ verify.out = [ok |-> TRUE, didKey |-> K2]
  /\ verify.calls = <<K1, K2>>

\* C26. A sig ending in "=" makes assureValidSig fail with
\* InvalidSignatureError carrying the operation before the sig is decoded and
\* before the verifier is called, whatever the allowed keys, those under which
\* the signature would verify included.
C26_PaddedSigBeforeCrypto ==
  (SigSettled /\ endsWithEq(verify.op.sig)) =>
    /\ verify.at = "threw"
    /\ verify.out = Throw(InvalidSignatureError(verify.op))
    /\ verify.calls = <<>>
    /\ ~verify.decoded

\* A padded signature by K1 over the operation's own bytes has been refused
\* though K1 is the first allowed key.
C26_Witness ==
  /\ SigSettled
  /\ endsWithEq(verify.op.sig)
  /\ verify.allowedDidKeys = <<K1, K2>>
  /\ SigVerifying = {1}
  /\ verify.at = "threw"
  /\ verify.calls = <<>>

\* The importer has just pushed the row of the line it read.
ImportPushed == importer # Undefined /\ importer.pushed

\* The row pushed last.
LastRow ==
  IF importer.rows # <<>> THEN importer.rows[Len(importer.rows)]
  ELSE importer.table[Len(importer.table)]

\* C27, as the specification states it: the row the importer makes of a line
\* holds the line's did, operation, cid, nullified and createdAt, with
\* nullified true as with false, so that the export encoder makes the line
\* again of the row.
C27_RoundTrip ==
  ImportPushed => encode(LastRow) = importer.line

\* C27, as the code behaves: the did, the operation, the flag and the instant
\* of the row are those of the line; the cid is the line's when nullified is
\* false, and the line's without its last character when nullified is true,
\* and only a row with nullified false encodes to its line again.
C27_RoundTripUnlessNullified ==
  ImportPushed =>
    \E d \in WireDids, o \in WireOps, c \in WireCids, n \in BOOLEAN, t \in WireTimes :
      /\ importer.line = WireLine(d, o, c, n, toJSON(t))
      /\ LastRow = [cid |-> IF n THEN SubSeq(c, 1, Len(c) - 1) ELSE c,
                    did |-> d, operation |-> o,
                    nullified |-> IF n THEN 1 ELSE 0, created_at |-> t]
      /\ (encode(LastRow) = importer.line) <=> ~n

\* The line of a nullified operation with cid bafy has been stored under baf.
C27_Witness ==
  /\ ImportPushed
  /\ importer.line =
       WireLine(<<"a", "b", "c">>, <<"{", "}">>, <<"b", "a", "f", "y">>, TRUE,
                toJSON(1001))
  /\ LastRow.nullified = 1
  /\ LastRow.cid = <<"b", "a", "f">>
  /\ encode(LastRow) # importer.line

\* C28. The genesis is never displaced: the first accepted operation becomes
\* the first element of the history, every later accepted step, forks
\* included, hands back a list that starts with it, and once the history
\* holds an operation it is never empty again.
C28_GenesisStays ==
  [][/\ Len(history) >= 1 => (Len(history') >= 1 /\ history'[1] = history[1])
     /\ (pc' = "resolved" /\ Len(history) >= 1) => result'.ops[1] = history[1]
     /\ (pc = "resolved" /\ Len(history) = 0) => history' = <<op>>]_vars

\* A fork that names the genesis and displaces the two operations after it
\* has just been accepted: the result starts with the genesis.
C28_Witness ==
  /\ StepAccepted
  /\ Len(history) = 3
  /\ FirstMatch(history, op) = 1
  /\ result.ops = <<history[1], op>>
  /\ Len(result.nullified) = 2

\* The index, in the rotation keys of the operation at position i of the
\* history, of the first key that verifies the operation.
PowerAt(i, operation) ==
  Min(VerifyingAt(RotationKeysOf(history[i].operation), operation))

\* C29. Monotone power at a fork point: an accepted fork's operation verifies
\* under a key of the ancestor strictly earlier in its list than the first key
\* verifying the operation it replaces; so the operations replaced after one
\* ancestor were signed by ever weaker keys the further back they were
\* replaced, none of them is the operation now in that place nor is accepted
\* there again, and an ancestor with n rotation keys has seen at most n - 1
\* replacements.
C29_MonotonePower ==
  /\ (StepAccepted /\ Len(result.nullified) >= 1) =>
       LET i == Len(result.ops) - 1
       IN /\ PowerAt(i, op.operation) < PowerAt(i, history[i + 1].operation)
          /\ \A k \in 1..Len(replaced[i]) : replaced[i][k] # op
  /\ pc = "loop" =>
       /\ Len(replaced) = Len(history)
       /\ \A i \in 1..Len(history) :
            /\ Len(replaced[i]) <= Len(RotationKeysOf(history[i].operation)) - 1
            /\ \A k \in 1..Len(replaced[i]) :
                 /\ i < Len(history)
                 /\ replaced[i][k] # history[i + 1]
                 /\ PowerAt(i, history[i + 1].operation)
                      < PowerAt(i, replaced[i][k].operation)
                 /\ \A j \in 1..(k - 1) :
                      PowerAt(i, replaced[i][k].operation)
                        < PowerAt(i, replaced[i][j].operation)

\* The operation after the genesis has been replaced twice: first one signed
\* by K3, then one signed by K2, and the one now in place is signed by K1.
C29_Witness ==
  /\ pc = "loop"
  /\ Len(history) = 2
  /\ Len(replaced[1]) = 2
  /\ SignedBy(K3, replaced[1][1].operation)
  /\ SignedBy(K2, replaced[1][2].operation)
  /\ SignedBy(K1, history[2].operation)

\* C30. In a history the driver has built from the empty one, the first
\* operation a fork would displace always verifies under the rotation keys of
\* the ancestor the fork names, whatever is proposed; so when a fork-shaped
\* step fails with InvalidSignatureError, the operation the error carries is
\* the proposed one.
C30_DisputedSignerFound ==
  /\ \A i \in 1..(Len(history) - 1) :
       ~isTombstone(history[i].operation) =>
         assureValidSig(normalizeOp(history[i].operation).rotationKeys,
                        history[i + 1].operation).ok
  /\ ((StepAccepted \/ StepRejected) /\ ForkProposed) =>
       /\ VerifyingAt(AncestorKeys, FirstNullified.operation) # {}
       /\ (StepRejected /\ err.kind = "InvalidSignatureError") =>
            err = InvalidSignatureError(op.operation)

\* A fork of a three-operation history, signed by the key that signed the
\* operation it would displace, has failed with the proposed operation in
\* the error, which is not the displaced one.
C30_Witness ==
  /\ StepRejected
  /\ ForkProposed
  /\ Len(history) = 3
  /\ FirstMatch(history, op) = 2
  /\ err = InvalidSignatureError(op.operation)
  /\ op.operation # FirstNullified.operation
  /\ SignedBy(K2, op.operation)
  /\ SignedBy(K2, FirstNullified.operation)

\* C31. When the createdAt of the proposed operation or of the first
\* nullified operation cannot be parsed, a fork never fails with
\* LateRecoveryError: it is accepted exactly when its two signature checks
\* pass, whatever the other createdAt is.
C31_UnparseableDateNeverLate ==
  ((StepAccepted \/ StepRejected) /\ ForkProposed
     /\ (DateParse(op.createdAt) = NaN
           \/ DateParse(FirstNullified.createdAt) = NaN)) =>
    /\ StepRejected => err.kind # "LateRecoveryError"
    /\ StepAccepted <=> ForkSignaturesPass

\* A fork by K1 with an unparseable createdAt has been accepted over an
\* operation by K2 dated on day 1.
C31_Witness ==
  /\ StepAccepted
  /\ ForkProposed
  /\ op.createdAt = InvalidDate
  /\ FirstNullified.createdAt = [day |-> 1, ms |-> 0]
  /\ SignedBy(K1, op.operation)
  /\ SignedBy(K2, FirstNullified.operation)
  /\ Len(result.nullified) >= 1

====
